---------------------------- MODULE Spec2Model ----------------------------
(***************************************************************************)
(* State-machine model of src/download-speed.py (class InternetSpeedTest). *)
(*                                                                         *)
(* Each public method is modelled as a small program with its own program  *)
(* counter.  Several specifications are given, one per entry point that is *)
(* called on a freshly constructed object:                                 *)
(*   SpecPing    measure_ping(host)              attempt by attempt        *)
(*   SpecPar     run_parallel_ping_tests()       worker pool + collector   *)
(*   SpecDown    run_download_tests()            sequential GET loop       *)
(*   SpecUp      run_upload_test()               nested POST loops         *)
(*   SpecRead    download_speed_test(url)        the chunk read loop       *)
(*   SpecEst     estimate_upload_from_download() pure function             *)
(*   SpecAna     analyze_connection_quality()    pure function             *)
(*   Spec        run_full_test()                 the three phases in order *)
(*                                                                         *)
(* Numbers.  Durations are in milliseconds (integers, except the time of  *)
(* a POST, which is a fraction), sizes are integers in bytes, and every    *)
(* derived figure (a mean, a speed in Mbps, a median) is an exact fraction *)
(* <<num, den>> in lowest terms.  An absent value (Python None) is the     *)
(* empty tuple.                                                            *)
(***************************************************************************)
EXTENDS Integers, Sequences, FiniteSets, TLC

VARIABLES
    call,               \* the method invoked on the fresh object
    pc,                 \* position of the calling (main) thread
    in_flight,          \* the throughput transfers (GET or POST) now open
    \* ---- measure_ping (one call) ----
    mp_i,               \* iterations of `for _ in range(3)` completed
    ping_times,         \* local list ping_times
    mp_log,             \* outcome of every connect attempt so far (history)
    mp_ret,             \* value returned by measure_ping
    \* ---- run_parallel_ping_tests ----
    wstate,             \* per host: "queued" | "running" | "done"
    wresult,            \* per host: what its future holds
    collected,          \* futures already yielded by as_completed
    ping_results,       \* local list ping_results
    avg_ping,           \* value returned by run_parallel_ping_tests
    \* ---- run_download_tests ----
    dl_i,               \* urls of download_urls[:max_tests] consumed so far
    download_results,   \* local list download_results
    successful_tests,   \* local counter successful_tests
    get_log,            \* every GET issued so far: its url index, and the
                        \* samples held when it was issued (history)
    dl_hist,            \* outcome of every GET completed so far (history)
    download_speed,     \* value returned by run_download_tests
    \* ---- run_upload_test / upload_speed_test ----
    ul_n,               \* index into run_upload_test's test_sizes
    ust_s,              \* index into upload_speed_test's test_sizes
    ust_u,              \* index into upload_urls
    best_result,        \* local best_result
    post_log,           \* <<size_kb, url index>> of every POST issued (history)
    ul_accepted,        \* every result upload_speed_test returned (history)
    ul_last,            \* the POST completed last, with its timing (history)
    ul_fast_seen,       \* some POST so far moved its payload at more than
                        \* 1.0 Mbps, accepted or not (history)
    upload_speed,       \* value returned by run_upload_test
    \* ---- estimate_upload_from_download / run_full_test ----
    est_in,             \* argument of the last estimate_upload_from_download
    est_out,            \* its return value
    est_calls,          \* number of calls of estimate_upload_from_download
    report,             \* the upload line run_full_test displays
    \* ---- measure_ping: sockets ----
    open_socks,         \* attempts of measure_ping whose socket is not closed
    sock_ref,           \* the attempt whose socket the local sock is bound to
                        \* (0: none yet)
    \* ---- download_speed_test: the read loop ----
    total_data,         \* local total_data
    last_read_at,       \* total_data at the latest call of response.read
                        \* (0 before the first) (history)
    dst_time,           \* local download_time, in ms (0 before it is taken)
    dst_ret,            \* value returned by download_speed_test
    \* ---- analyze_connection_quality ----
    ana_ping,           \* argument ping
    ana_down,           \* argument download
    ana_up,             \* argument upload
    analysis            \* the list returned

pingVars == <<mp_i, ping_times, mp_log, mp_ret>>
parVars  == <<wstate, wresult, collected, ping_results, avg_ping>>
dlVars   == <<dl_i, download_results, successful_tests, get_log, dl_hist,
              download_speed>>
ulVars   == <<ul_n, ust_s, ust_u, best_result, post_log, ul_accepted, ul_last,
              ul_fast_seen, upload_speed>>
estVars  == <<est_in, est_out, est_calls, report>>
sockVars == <<open_socks, sock_ref>>
readVars == <<total_data, last_read_at, dst_time, dst_ret>>
anaVars  == <<ana_ping, ana_down, ana_up, analysis>>
vars     == <<call, pc, in_flight, pingVars, parVars, dlVars, ulVars, estVars,
              sockVars, readVars, anaVars>>

None == <<>>

(***************************************************************************)
(* Exact fractions.                                                        *)
(***************************************************************************)
RECURSIVE Gcd(_, _)
Gcd(a, b) == IF b = 0 THEN a ELSE Gcd(b, a % b)

Norm(r) ==
    LET g == Gcd(r[1], r[2])
    IN  IF g = 0 THEN r ELSE <<r[1] \div g, r[2] \div g>>

\* a/b < c/d for non-negative a, c and positive b, d, by the continued
\* fraction expansion (no product is formed, so nothing overflows).
RECURSIVE FracLt(_, _, _, _)
FracLt(a, b, c, d) ==
    LET q1 == a \div b
        q2 == c \div d
        r1 == a % b
        r2 == c % d
    IN  IF q1 # q2 THEN q1 < q2
        ELSE IF r2 = 0 THEN FALSE
        ELSE IF r1 = 0 THEN TRUE
        ELSE FracLt(d, r2, b, r1)

RatLt(x, y) == FracLt(x[1], x[2], y[1], y[2])
RatGt(x, y) == RatLt(y, x)
RatLe(x, y) == ~RatLt(y, x)
RatAdd(x, y) == Norm(<<x[1] * y[2] + y[1] * x[2], x[2] * y[2]>>)
RatDivInt(x, n) == Norm(<<x[1], x[2] * n>>)
RatMul(x, y) ==
    LET g1 == Gcd(x[1], y[2])
        g2 == Gcd(y[1], x[2])
    IN  Norm(<<(x[1] \div g1) * (y[1] \div g2), (x[2] \div g2) * (y[2] \div g1)>>)
Int2Rat(n) == <<n, 1>>

RECURSIVE RatSum(_)
RatSum(s) == IF s = <<>> THEN <<0, 1>> ELSE RatAdd(Head(s), RatSum(Tail(s)))

\* statistics.mean(data) for a non-empty list of fractions
mean(data) == RatDivInt(RatSum(data), Len(data))

(***************************************************************************)
(* measure_ping                                                            *)
(***************************************************************************)
PingSamples == 3        \* for _ in range(3)

\* Connect times (ms) an attempt may take.
MaxPingTimes == 2
PingMs == {10 * k : k \in 1..MaxPingTimes}

\* One attempt: connect_ex returned 0 ("connected"), returned an error code
\* ("refused": refusal, timeout), or the try block raised ("error").
ConnectOutcomes(times) ==
    [kind : {"connected"}, ms : times]
        \cup {[kind |-> "refused", ms |-> 0], [kind |-> "error", ms |-> 0]}

\* PingStep without the test `if result == 0`: a time is recorded for an
\* attempt whose connect_ex returned an error code too.
PingStepNoResultTest(times, o) ==
    IF o.kind # "error" THEN Append(times, Int2Rat(o.ms)) ELSE times

\* Body of one loop iteration (lines 45-60) on the list ping_times.
PingStep(times, o) ==
    IF o.kind = "connected" THEN Append(times, Int2Rat(o.ms)) ELSE times

\* Line 62.
PingResult(times) == IF times # <<>> THEN mean(times) ELSE None

\* The whole call, for a given sequence of attempt outcomes.
RECURSIVE PingLoop(_, _)
PingLoop(times, outs) ==
    IF outs = <<>> THEN PingResult(times)
    ELSE PingLoop(PingStep(times, Head(outs)), Tail(outs))

measure_ping(outs) == PingLoop(<<>>, outs)

\* Where an attempt that ends in the except clause raised: in
\* socket.socket(...) (line 47, no socket was made), or later, in settimeout
\* or connect_ex (lines 48-49, the socket was made and line 50 is skipped).
RaisedAt(o) == IF o.kind = "error" THEN {"socket", "connect"} ELSE {"nowhere"}

\* The sockets left open by one iteration: `mine` is the attempt, `at` where
\* it raised, `closed` the unreferenced sockets finalised meanwhile.
SocksAfter(socks, mine, at, closed) ==
    (socks \ closed) \cup (IF at = "connect" THEN {mine} ELSE {})

\* Open sockets no variable refers to once `sock` is bound to attempt ref.
Unreferenced(socks, ref) == socks \ {ref}

\* Lines 45-60: one iteration of the loop.
PingAttempt ==
    /\ call = "measure_ping" /\ pc = "ping_loop"
    /\ mp_i < PingSamples
    /\ \E o \in ConnectOutcomes(PingMs) :
          /\ ping_times' = PingStep(ping_times, o)
          /\ mp_log' = Append(mp_log, o)
          /\ \E at \in RaisedAt(o) :
                /\ sock_ref' = IF at = "socket" THEN sock_ref ELSE mp_i + 1
                /\ \E closed \in SUBSET Unreferenced(open_socks, sock_ref') :
                      open_socks' = SocksAfter(open_socks, mp_i + 1, at, closed)
    /\ mp_i' = mp_i + 1
    /\ UNCHANGED <<call, readVars, anaVars, pc, in_flight, mp_ret, parVars,
                   dlVars, ulVars, estVars>>

\* Line 62; the frame is released, and with it the last reference to any
\* socket still open, which is closed when its finaliser runs.
PingReturn ==
    /\ call = "measure_ping" /\ pc = "ping_loop"
    /\ mp_i = PingSamples
    /\ mp_ret' = PingResult(ping_times)
    /\ pc' = "done"
    /\ sock_ref' = 0
    /\ \E closed \in SUBSET open_socks : open_socks' = open_socks \ closed
    /\ UNCHANGED <<call, readVars, anaVars, in_flight, mp_i, ping_times, mp_log,
                   parVars, dlVars, ulVars, estVars>>

(***************************************************************************)
(* run_parallel_ping_tests                                                 *)
(***************************************************************************)
NumHosts == 5           \* len(self.ping_hosts)
Hosts == 1..NumHosts

\* A callee's frame (its locals, and the history kept of it) stays
\* inspectable after the return when the method is the entry point; inside
\* run_full_test the frame is gone once the callee has returned.
\* (The outcomes of the GETs, dl_hist, are kept throughout.)
Frame(now, initial) == IF call = "run_full_test" THEN initial ELSE now

\* Connect times (ms) seen towards host h: one figure per host, different
\* from host to host, so that readings of different hosts can be told apart.
HostMs(h) == IF call = "run_full_test" THEN {10} ELSE {10 * h}

\* What a future may hold once its worker is through: the value returned by
\* measure_ping, or an exception that left the worker.
Returned(v) == [exc |-> FALSE, val |-> v]
Raised == [exc |-> TRUE, val |-> None]
Pending == [exc |-> FALSE, val |-> <<-1>>]

WorkerOutcomes(h) ==
    {Returned(measure_ping(outs)) :
         outs \in [1..PingSamples -> ConnectOutcomes(HostMs(h))]}
        \cup (IF call = "run_full_test" THEN {} ELSE {Raised})

InPingPhase == call \in {"run_parallel_ping_tests", "run_full_test"}

\* A pool thread picks up the submitted call (max_workers = len(ping_hosts),
\* so no submitted call waits for another).
WorkerStart(h) ==
    /\ InPingPhase
    /\ wstate[h] = "queued"
    /\ wstate' = [wstate EXCEPT ![h] = "running"]
    /\ UNCHANGED <<call, sockVars, readVars, anaVars, pc, in_flight, pingVars, wresult, collected,
                   ping_results, avg_ping, dlVars, ulVars, estVars>>

\* The worker runs measure_ping(host) to its end and completes its future.
WorkerFinish(h) ==
    /\ InPingPhase
    /\ wstate[h] = "running"
    /\ \E r \in WorkerOutcomes(h) : wresult' = [wresult EXCEPT ![h] = r]
    /\ wstate' = [wstate EXCEPT ![h] = "done"]
    /\ UNCHANGED <<call, sockVars, readVars, anaVars, pc, in_flight, pingVars, collected, ping_results,
                   avg_ping, dlVars, ulVars, estVars>>

\* AfterFuture with a failed host entering the list as a reading of 0 ms.
AfterFutureZeroOnFailure(results, fut) ==
    IF ~fut.exc /\ fut.val # None THEN Append(results, fut.val)
    ELSE Append(results, <<0, 1>>)

\* Lines 196-204: ping_results after future.result() of a completed future.
AfterFuture(results, fut) ==
    IF ~fut.exc /\ fut.val # None THEN Append(results, fut.val) ELSE results

\* One iteration of `for future in as_completed(...)` (lines 193-204):
\* as_completed yields a completed future not yielded before.
CollectFuture(h) ==
    /\ InPingPhase /\ pc = "ping_collect"
    /\ wstate[h] = "done" /\ h \notin collected
    /\ collected' = collected \cup {h}
    /\ ping_results' = AfterFuture(ping_results, wresult[h])
    /\ UNCHANGED <<call, sockVars, readVars, anaVars, pc, in_flight, pingVars, wstate, wresult, avg_ping,
                   dlVars, ulVars, estVars>>

\* ParReturn that leaves the loop at the first future collected and does not
\* join the pool (shutdown(wait=False)).
ParReturnNoJoin ==
    /\ InPingPhase /\ pc = "ping_collect"
    /\ collected # {}
    /\ avg_ping' = (IF ping_results # <<>> THEN mean(ping_results) ELSE None)
    /\ pc' = (IF call = "run_full_test" THEN "download" ELSE "done")
    /\ wresult' = Frame(wresult, [h \in Hosts |-> Pending])
    /\ collected' = Frame(collected, {})
    /\ ping_results' = Frame(ping_results, <<>>)
    /\ UNCHANGED <<call, sockVars, readVars, anaVars, in_flight, pingVars, wstate, dlVars, ulVars, estVars>>

\* as_completed is exhausted once every future was yielded; the executor's
\* exit joins the (finished) workers; line 206 returns.
ParReturn ==
    /\ InPingPhase /\ pc = "ping_collect"
    /\ collected = Hosts
    /\ avg_ping' = (IF ping_results # <<>> THEN mean(ping_results) ELSE None)
    /\ pc' = (IF call = "run_full_test" THEN "download" ELSE "done")
    /\ wresult' = Frame(wresult, [h \in Hosts |-> Pending])
    /\ collected' = Frame(collected, {})
    /\ ping_results' = Frame(ping_results, <<>>)
    /\ UNCHANGED <<call, sockVars, readVars, anaVars, in_flight, pingVars, wstate, dlVars, ulVars, estVars>>

(***************************************************************************)
(* download_speed_test and run_download_tests                              *)
(***************************************************************************)
NumDownloadUrls == 6    \* len(self.download_urls)
MaxTests == 4           \* max_tests = 4
MaxSuccesses == 3       \* if successful_tests >= 3: break
MinBytes == 1024        \* total_data > 1024
MinMs == 100            \* download_time > 0.1 (seconds)

\* (bytes / seconds) * 8 / (1024 * 1024) with the duration in milliseconds:
\* bytes * 1000 * 8 / (ms * 1048576) = (bytes / ms) * (125 / 16384).
Mbps(bytes, ms) == RatMul(<<bytes, ms>>, <<125, 16384>>)

\* What one GET may come to: the body was read to its end ("ok", with the
\* bytes read and the time taken), or one of the handled exceptions.
DlBytes == {1023, 1024, 655360, 1048576, 13107200}
DlMs == {50, 100, 500, 1000}
DlErrors == {"HTTPError", "URLError", "timeout", "Exception"}
DlOutcomes ==
    IF call = "run_full_test"
    THEN {[kind |-> "URLError", bytes |-> 0, ms |-> 0],
          [kind |-> "ok", bytes |-> 1024, ms |-> 1000],
          [kind |-> "ok", bytes |-> 1048576, ms |-> 1000]}
    ELSE [kind : {"ok"}, bytes : DlBytes, ms : DlMs]
             \cup [kind : DlErrors, bytes : {0}, ms : {0}]

\* Line 102.
SampleValid(bytes, ms) ==
    bytes > MinBytes /\ ms > MinMs

\* Lines 100-128: the value returned for a GET that came to o; a result is
\* the one-element tuple holding the dictionary, None the empty tuple.
download_speed_test(o) ==
    IF o.kind # "ok" THEN None
    ELSE IF SampleValid(o.bytes, o.ms)
         THEN <<[speed_mbps |-> Mbps(o.bytes, o.ms),
                 total_data |-> o.bytes,
                 time_ms |-> o.ms]>>
         ELSE None

\* sorted(data)
RECURSIVE Insert(_, _)
Insert(x, s) ==
    IF s = <<>> THEN <<x>>
    ELSE IF RatLt(x, Head(s)) THEN <<x>> \o s
    ELSE <<Head(s)>> \o Insert(x, Tail(s))

RECURSIVE sorted(_)
sorted(s) == IF s = <<>> THEN <<>> ELSE Insert(Head(s), sorted(Tail(s)))

\* statistics.median(data) for a non-empty list
median(data) ==
    LET d == sorted(data)
        n == Len(d)
    IN  IF n % 2 = 1 THEN d[(n \div 2) + 1]
        ELSE RatDivInt(RatAdd(d[n \div 2], d[(n \div 2) + 1]), 2)

\* DownloadFigure returning avg_speed (the mean) instead of median_speed.
DownloadFigureMean(results) ==
    IF results # <<>> THEN mean(results) ELSE None

\* Lines 229-240.
DownloadFigure(results) ==
    IF results # <<>> THEN median(results) ELSE None

\* DlContinue over self.download_urls instead of self.download_urls[:max_tests].
DlContinueAllUrls == dl_i < NumDownloadUrls /\ successful_tests < MaxSuccesses

\* DlContinue without the test `if successful_tests >= 3: break`.
DlContinueNoSuccessCap == dl_i < MaxTests

\* Lines 215-217: the loop goes on to another url.
DlContinue == dl_i < MaxTests /\ successful_tests < MaxSuccesses

InDownloadPhase == call \in {"run_download_tests", "run_full_test"}

\* Line 219, up to the moment urlopen sends the request.
DlRequestStart ==
    /\ InDownloadPhase /\ pc = "download"
    /\ DlContinue
    /\ get_log' = Append(get_log, [url |-> dl_i + 1,
                                   samples |-> Len(download_results)])
    /\ in_flight' = in_flight \cup {<<"GET", dl_i + 1>>}
    /\ pc' = "download_wait"
    /\ UNCHANGED <<call, sockVars, readVars, anaVars, pingVars, parVars, dl_i, download_results,
                   successful_tests, dl_hist, download_speed, ulVars, estVars>>

\* DlRequestEnd with the handler of socket.timeout raising again: the loop
\* of run_download_tests is left at the first timeout.
DlRequestEndTimeoutAborts ==
    /\ InDownloadPhase /\ pc = "download_wait"
    /\ \E o \in DlOutcomes :
          LET result == download_speed_test(o)
          IN  /\ download_results' =
                    IF result # None
                    THEN Append(download_results, result[1].speed_mbps)
                    ELSE download_results
              /\ successful_tests' =
                    IF result # None THEN successful_tests + 1
                    ELSE successful_tests
              /\ dl_hist' = Append(dl_hist, o)
              /\ dl_i' = IF o.kind = "timeout" THEN MaxTests ELSE dl_i + 1
    /\ in_flight' = in_flight \ {<<"GET", dl_i + 1>>}
    /\ pc' = "download"
    /\ UNCHANGED <<call, sockVars, readVars, anaVars, pingVars, parVars, get_log, download_speed, ulVars,
                   estVars>>

\* The rest of the iteration: download_speed_test returns, lines 220-227.
DlRequestEnd ==
    /\ InDownloadPhase /\ pc = "download_wait"
    /\ \E o \in DlOutcomes :
          LET result == download_speed_test(o)
          IN  /\ download_results' =
                    IF result # None
                    THEN Append(download_results, result[1].speed_mbps)
                    ELSE download_results
              /\ successful_tests' =
                    IF result # None THEN successful_tests + 1
                    ELSE successful_tests
              /\ dl_hist' = Append(dl_hist, o)
    /\ dl_i' = dl_i + 1
    /\ in_flight' = in_flight \ {<<"GET", dl_i + 1>>}
    /\ pc' = "download"
    /\ UNCHANGED <<call, sockVars, readVars, anaVars, pingVars, parVars, get_log, download_speed, ulVars,
                   estVars>>

\* Loop exit and lines 229-240.
DlReturn ==
    /\ InDownloadPhase /\ pc = "download"
    /\ ~DlContinue
    /\ download_speed' = DownloadFigure(download_results)
    /\ pc' = (IF call = "run_full_test" THEN "upload" ELSE "done")
    /\ dl_i' = Frame(dl_i, 0)
    /\ download_results' = Frame(download_results, <<>>)
    /\ successful_tests' = Frame(successful_tests, 0)
    /\ get_log' = Frame(get_log, <<>>)
    /\ dl_hist' = dl_hist
    /\ UNCHANGED <<call, sockVars, readVars, anaVars, in_flight, pingVars, parVars, ulVars, estVars>>

(***************************************************************************)
(* download_speed_test: the read loop                                      *)
(***************************************************************************)
ChunkSize == 8192               \* chunk_size = 8192
ReadCap == 50 * 1024 * 1024     \* total_data > 50 * 1024 * 1024

\* The bodies served are at most MaxBodyOver chunks longer than the cap.
MaxBodyOver == 3
MaxBody == ReadCap + MaxBodyOver * ChunkSize

\* len(chunk) for one response.read(chunk_size): 0 at the end of the body,
\* else at most chunk_size bytes (a full chunk or a short read).
ChunkLens == {0, ChunkSize \div 2, ChunkSize}

\* OverCap with the limit never applying.
OverCapNever(total) == FALSE

\* Line 95.
OverCap(total) == total > ReadCap

\* Lines 87-96: one iteration of `while True`.
ReadChunk ==
    /\ call = "download_speed_test" /\ pc = "read"
    /\ \E n \in ChunkLens :
          /\ total_data + n <= MaxBody
          /\ total_data' = total_data + n
          /\ pc' = IF n = 0 \/ OverCap(total_data + n) THEN "measure" ELSE "read"
    /\ last_read_at' = total_data
    /\ UNCHANGED <<call, in_flight, pingVars, parVars, dlVars, ulVars, estVars,
                   sockVars, dst_time, dst_ret, anaVars>>

\* response.read raises (socket.timeout or another exception): lines 117-128.
ReadRaises ==
    /\ call = "download_speed_test" /\ pc = "read"
    /\ last_read_at' = total_data
    /\ dst_ret' = None
    /\ pc' = "done"
    /\ UNCHANGED <<call, in_flight, pingVars, parVars, dlVars, ulVars, estVars,
                   sockVars, total_data, dst_time, anaVars>>

\* Lines 98-115: the time is taken and the result made.
ReadMeasure ==
    /\ call = "download_speed_test" /\ pc = "measure"
    /\ \E ms \in DlMs :
          /\ dst_time' = ms
          /\ dst_ret' = download_speed_test([kind |-> "ok", bytes |-> total_data,
                                             ms |-> ms])
    /\ pc' = "done"
    /\ UNCHANGED <<call, in_flight, pingVars, parVars, dlVars, ulVars, estVars,
                   sockVars, total_data, last_read_at, anaVars>>

(***************************************************************************)
(* upload_speed_test and run_upload_test                                   *)
(***************************************************************************)
NumUploadUrls == 3      \* len(self.upload_urls)
UploadMinMs == 100      \* upload_time > 0.1 (seconds)

\* run_upload_test: test_sizes = [50, 100, 200]
RunSizes == <<50, 100, 200>>

\* TestSizes with the sizes in ascending order.
TestSizesAscending(size_kb) == <<size_kb \div 2, size_kb, size_kb * 2>>

\* upload_speed_test: test_sizes = [size_kb, size_kb // 2, size_kb * 2]
TestSizes(size_kb) == <<size_kb, size_kb \div 2, size_kb * 2>>

Digits(n) == IF n < 10 THEN 1 ELSE IF n < 100 THEN 2 ELSE IF n < 1000 THEN 3 ELSE 4

\* len(post_data): json.dumps of the four-key dictionary, whose 'data' is
\* size * 1024 letters; 67 characters of keys and punctuation, the digits of
\* the timestamp (ts) and those of size_kb.
PostLen(size, ts) == size * 1024 + 67 + ts + Digits(size)

\* Lines 167-168: the speed of `bytes` sent in `ms` milliseconds, ms being a
\* fraction.
UploadMbps(bytes, ms) ==
    RatMul(RatMul(<<bytes, 1>>, <<ms[2], ms[1]>>), <<125, 16384>>)

\* The upload_time, in milliseconds, at which `bytes` are sent at exactly
\* 65536 bytes per second, which is 0.5 Mbps: bytes / 65536 seconds, a value
\* a difference of two perf_counter() readings can take.
HalfMbpsMs(bytes) == Norm(<<bytes * 125, 8192>>)

\* What one POST of `size` KB may come to: the response was read ("ok", with
\* the time taken, a fraction of milliseconds, and the length of the
\* timestamp's text), or an exception.
UlMs == {50, 100, 150, 2000, 20000}
TsLens == {12, 18}
UlOutcomes(size) ==
    IF call = "run_full_test"
    THEN {[kind |-> "error", ms |-> <<0, 1>>, ts |-> 0],
          [kind |-> "ok", ms |-> <<2000, 1>>, ts |-> 17],
          [kind |-> "ok", ms |-> HalfMbpsMs(PostLen(size, 17)), ts |-> 17]}
    ELSE [kind : {"ok"}, ms : {Int2Rat(m) : m \in UlMs}, ts : TsLens]
             \cup {[kind |-> "ok", ms |-> HalfMbpsMs(PostLen(size, ts)), ts |-> ts] :
                      ts \in TsLens}
             \cup {[kind |-> "error", ms |-> <<0, 1>>, ts |-> 0]}

\* The payload size of the POST the loops are at.
CurSize == TestSizes(RunSizes[ul_n])[ust_s]

\* Line 165.
UploadAccepted(o) == o.kind = "ok" /\ RatGt(o.ms, Int2Rat(UploadMinMs))

\* Lines 166-174.
UploadResult(size, o) ==
    [speed_mbps |-> UploadMbps(PostLen(size, o.ts), o.ms),
     bytes |-> PostLen(size, o.ts),
     time_ms |-> o.ms]

\* Line 252: the result counts at all.
AboveMinimum(result) ==
    result # None /\ RatGt(result[1].speed_mbps, <<1, 10>>)

\* BetterThanBest keeping the latest result rather than the fastest.
BetterThanBestLatest(result, best) == TRUE

\* Lines 255-256.
BetterThanBest(result, best) ==
    best = None \/ RatGt(result[1].speed_mbps, best[1].speed_mbps)

NewBest(result, best) ==
    IF AboveMinimum(result) /\ BetterThanBest(result, best) THEN result
    ELSE best

\* GoodEnough with the early return at 10.0 Mbps instead of 1.0 Mbps.
GoodEnoughAtTen(result) ==
    AboveMinimum(result) /\ RatGt(result[1].speed_mbps, <<10, 1>>)

\* Line 259.
GoodEnough(result) ==
    AboveMinimum(result) /\ RatGt(result[1].speed_mbps, <<1, 1>>)

\* Line 264.
BestFigure(best) == IF best # None THEN best[1].speed_mbps ELSE None

InUploadPhase == call \in {"run_upload_test", "run_full_test"}

AfterUpload == IF call = "run_full_test" THEN "report" ELSE "done"

\* Lines 136-156, up to the moment urlopen sends the request.
UlPostStart ==
    /\ InUploadPhase /\ pc = "upload"
    /\ post_log' = Append(post_log, <<CurSize, ust_u>>)
    /\ in_flight' = in_flight \cup {<<"POST", Len(post_log) + 1>>}
    /\ pc' = "upload_wait"
    /\ UNCHANGED <<call, sockVars, readVars, anaVars, pingVars, parVars, dlVars, ul_n, ust_s, ust_u,
                   best_result, ul_accepted, ul_last, ul_fast_seen,
                   upload_speed, estVars>>

\* run_upload_test, lines 252-264, once upload_speed_test has returned
\* `result` for the size at ul_n: return, or go on to the next size.
RunUploadStep(result) ==
    LET best == NewBest(result, best_result)
    IN  IF GoodEnough(result)
        THEN /\ upload_speed' = result[1].speed_mbps
             /\ pc' = AfterUpload
             /\ best_result' = Frame(best, None)
             /\ ul_n' = Frame(ul_n, 1)
             /\ ust_s' = Frame(ust_s, 1)
             /\ ust_u' = Frame(ust_u, 1)
        ELSE IF ul_n < Len(RunSizes)
        THEN /\ ul_n' = ul_n + 1
             /\ ust_s' = 1
             /\ ust_u' = 1
             /\ best_result' = best
             /\ pc' = "upload"
             /\ UNCHANGED upload_speed
        ELSE /\ upload_speed' = BestFigure(best)
             /\ pc' = AfterUpload
             /\ best_result' = Frame(best, None)
             /\ ul_n' = Frame(ul_n, 1)
             /\ ust_s' = Frame(ust_s, 1)
             /\ ust_u' = Frame(ust_u, 1)

\* upload_speed_test after a POST that was not accepted (lines 165, 176-178):
\* the next url, the next size, or `return None`.
UploadNext ==
    IF ust_u < NumUploadUrls
    THEN /\ ust_u' = ust_u + 1
         /\ pc' = "upload"
         /\ UNCHANGED <<ul_n, ust_s, best_result, upload_speed>>
    ELSE IF ust_s < Len(TestSizes(RunSizes[ul_n]))
    THEN /\ ust_s' = ust_s + 1
         /\ ust_u' = 1
         /\ pc' = "upload"
         /\ UNCHANGED <<ul_n, best_result, upload_speed>>
    ELSE RunUploadStep(None)

\* The POST comes to o: lines 158-178 and, when upload_speed_test returns,
\* the caller's lines 252-264.
UlPostEnd ==
    /\ InUploadPhase /\ pc = "upload_wait"
    /\ in_flight' = in_flight \ {<<"POST", Len(post_log)>>}
    /\ \E o \in UlOutcomes(CurSize) :
          LET entry == [kind |-> o.kind, ms |-> o.ms,
                        bytes |-> IF o.kind = "ok" THEN PostLen(CurSize, o.ts) ELSE 0,
                        at |-> Len(post_log)]
              finished == pc' # "upload" /\ call = "run_full_test"
          IN  /\ IF UploadAccepted(o)
                 THEN RunUploadStep(<<UploadResult(CurSize, o)>>)
                 ELSE UploadNext
              /\ ul_last' = IF finished THEN None ELSE <<entry>>
              /\ ul_accepted' =
                    IF finished THEN <<>>
                    ELSE IF UploadAccepted(o)
                    THEN Append(ul_accepted,
                                [speed_mbps |-> UploadResult(CurSize, o).speed_mbps,
                                 at |-> Len(post_log)])
                    ELSE ul_accepted
              /\ post_log' = IF finished THEN <<>> ELSE post_log
              /\ ul_fast_seen' =
                    IF finished THEN FALSE
                    ELSE \/ ul_fast_seen
                         \/ /\ o.kind = "ok"
                            /\ RatGt(UploadMbps(PostLen(CurSize, o.ts), o.ms), <<1, 1>>)
    /\ UNCHANGED <<call, sockVars, readVars, anaVars, pingVars, parVars, dlVars, estVars>>

(***************************************************************************)
(* estimate_upload_from_download                                           *)
(***************************************************************************)
\* connection_profiles with the brackets in ascending order of max_down.
connection_profiles_ascending == <<
    [name |-> "dsl", ratio |-> <<1, 10>>, max_down |-> 15,
     inf |-> FALSE, description |-> "DSL"],
    [name |-> "satellite", ratio |-> <<1, 20>>, max_down |-> 25,
     inf |-> FALSE, description |-> "Satellite"],
    [name |-> "cable_basic", ratio |-> <<1, 5>>, max_down |-> 50,
     inf |-> FALSE, description |-> "Cable Basic"],
    [name |-> "cable_premium", ratio |-> <<3, 10>>, max_down |-> 200,
     inf |-> FALSE, description |-> "Cable Premium"],
    [name |-> "fiber_asymmetric", ratio |-> <<2, 5>>, max_down |-> 500,
     inf |-> FALSE, description |-> "Fiber Asymmetric"],
    [name |-> "fiber_symmetric", ratio |-> <<9, 10>>, max_down |-> 0,
     inf |-> TRUE, description |-> "Fiber Symmetric"] >>

\* connection_profiles without the fiber_symmetric entry.
connection_profiles_bounded == <<
    [name |-> "satellite", ratio |-> <<1, 20>>, max_down |-> 25,
     inf |-> FALSE, description |-> "Satellite"],
    [name |-> "dsl", ratio |-> <<1, 10>>, max_down |-> 15,
     inf |-> FALSE, description |-> "DSL"],
    [name |-> "cable_basic", ratio |-> <<1, 5>>, max_down |-> 50,
     inf |-> FALSE, description |-> "Cable Basic"],
    [name |-> "cable_premium", ratio |-> <<3, 10>>, max_down |-> 200,
     inf |-> FALSE, description |-> "Cable Premium"],
    [name |-> "fiber_asymmetric", ratio |-> <<2, 5>>, max_down |-> 500,
     inf |-> FALSE, description |-> "Fiber Asymmetric"] >>

\* connection_profiles with a satellite ceiling of 10 instead of 25.
connection_profiles_satellite_ten == <<
    [name |-> "satellite", ratio |-> <<1, 20>>, max_down |-> 10,
     inf |-> FALSE, description |-> "Satellite"],
    [name |-> "dsl", ratio |-> <<1, 10>>, max_down |-> 15,
     inf |-> FALSE, description |-> "DSL"],
    [name |-> "cable_basic", ratio |-> <<1, 5>>, max_down |-> 50,
     inf |-> FALSE, description |-> "Cable Basic"],
    [name |-> "cable_premium", ratio |-> <<3, 10>>, max_down |-> 200,
     inf |-> FALSE, description |-> "Cable Premium"],
    [name |-> "fiber_asymmetric", ratio |-> <<2, 5>>, max_down |-> 500,
     inf |-> FALSE, description |-> "Fiber Asymmetric"],
    [name |-> "fiber_symmetric", ratio |-> <<9, 10>>, max_down |-> 0,
     inf |-> TRUE, description |-> "Fiber Symmetric"] >>

\* connection_profiles, in the order the dictionary is written (and hence
\* iterated); inf marks max_down = float('inf').
connection_profiles == <<
    [name |-> "satellite", ratio |-> <<1, 20>>, max_down |-> 25,
     inf |-> FALSE, description |-> "Satellite"],
    [name |-> "dsl", ratio |-> <<1, 10>>, max_down |-> 15,
     inf |-> FALSE, description |-> "DSL"],
    [name |-> "cable_basic", ratio |-> <<1, 5>>, max_down |-> 50,
     inf |-> FALSE, description |-> "Cable Basic"],
    [name |-> "cable_premium", ratio |-> <<3, 10>>, max_down |-> 200,
     inf |-> FALSE, description |-> "Cable Premium"],
    [name |-> "fiber_asymmetric", ratio |-> <<2, 5>>, max_down |-> 500,
     inf |-> FALSE, description |-> "Fiber Asymmetric"],
    [name |-> "fiber_symmetric", ratio |-> <<9, 10>>, max_down |-> 0,
     inf |-> TRUE, description |-> "Fiber Symmetric"] >>

\* Line 279: download_speed <= profile['max_down'].
WithinProfile(speed, profile) ==
    profile.inf \/ RatLe(speed, Int2Rat(profile.max_down))

\* Lines 278-284: the loop from profile k on, then the default.
RECURSIVE EstimateFrom(_, _)
EstimateFrom(k, speed) ==
    IF k > Len(connection_profiles)
    THEN [estimated_upload |-> RatMul(speed, <<9, 10>>),
          conn_type |-> "High-Speed Fiber"]
    ELSE IF WithinProfile(speed, connection_profiles[k])
    THEN [estimated_upload |-> RatMul(speed, connection_profiles[k].ratio),
          conn_type |-> connection_profiles[k].description]
    ELSE EstimateFrom(k + 1, speed)

estimate_upload_from_download(speed) == EstimateFrom(1, speed)

\* Download speeds the function is applied to: 0, 0.5, 1, ... Mbps.
MaxEstNum == 1100
EstInputs == {Norm(<<k, 2>>) : k \in 0..MaxEstNum}

EstCall ==
    /\ call = "estimate_upload_from_download" /\ pc = "est_call"
    /\ est_out' = <<estimate_upload_from_download(est_in)>>
    /\ est_calls' = est_calls + 1
    /\ pc' = "done"
    /\ UNCHANGED <<call, sockVars, readVars, anaVars, in_flight, pingVars, parVars, dlVars, ulVars, est_in,
                   report>>

(***************************************************************************)
(* analyze_connection_quality                                              *)
(***************************************************************************)
\* Lines 291-299; each message is named by its first words.
PingAnalysis(ping) ==
    IF ping = None THEN <<>>
    ELSE IF RatLt(ping, <<10, 1>>) THEN <<"Excellent latency">>
    ELSE IF RatLt(ping, <<30, 1>>) THEN <<"Good latency">>
    ELSE IF RatLt(ping, <<100, 1>>) THEN <<"Fair latency">>
    ELSE <<"High latency">>

\* Lines 302-312.
DownloadAnalysis(download) ==
    IF download = None THEN <<>>
    ELSE IF RatGt(download, <<100, 1>>) THEN <<"Ultra-fast download">>
    ELSE IF RatGt(download, <<25, 1>>) THEN <<"Fast download">>
    ELSE IF RatGt(download, <<10, 1>>) THEN <<"Good download">>
    ELSE IF RatGt(download, <<5, 1>>) THEN <<"Adequate download">>
    ELSE <<"Slow download">>

\* Lines 315-323.
UploadAnalysis(upload) ==
    IF ~(upload # None /\ RatGt(upload, <<1, 2>>)) THEN <<>>
    ELSE IF RatGt(upload, <<10, 1>>) THEN <<"Fast upload">>
    ELSE IF RatGt(upload, <<5, 1>>) THEN <<"Good upload">>
    ELSE IF RatGt(upload, <<1, 1>>) THEN <<"Basic upload">>
    ELSE <<"Limited upload">>

\* analyze_connection_quality with the upload block nested in the download
\* block.
analyze_connection_quality_nested(ping, download, upload) ==
    PingAnalysis(ping)
        \o (IF download = None THEN <<>>
            ELSE DownloadAnalysis(download) \o UploadAnalysis(upload))

\* Lines 286-325: the three blocks append to `analysis` in turn.
analyze_connection_quality(ping, download, upload) ==
    PingAnalysis(ping) \o DownloadAnalysis(download) \o UploadAnalysis(upload)

\* Arguments the function is applied to: None and values on, between and
\* beyond the thresholds.
AnaPings == {None} \cup {Int2Rat(n) : n \in {5, 10, 20, 30, 65, 100, 150}}
AnaDowns == {None} \cup {Int2Rat(n) : n \in {3, 5, 8, 10, 20, 25, 50, 100, 200}}
AnaUps == {None, <<0, 1>>, <<1, 2>>, <<3, 4>>}
              \cup {Int2Rat(n) : n \in {1, 3, 5, 7, 10, 20}}

AnaCall ==
    /\ call = "analyze_connection_quality" /\ pc = "ana_call"
    /\ analysis' = analyze_connection_quality(ana_ping, ana_down, ana_up)
    /\ pc' = "done"
    /\ UNCHANGED <<call, in_flight, pingVars, parVars, dlVars, ulVars, estVars,
                   sockVars, readVars, ana_ping, ana_down, ana_up>>

(***************************************************************************)
(* run_full_test                                                           *)
(***************************************************************************)
\* UploadUsable with `upload_speed >= 0.5`.
UploadUsableAtLeast(speed) == speed # None /\ RatLe(<<1, 2>>, speed)

\* Line 357.
UploadUsable(speed) == speed # None /\ RatGt(speed, <<1, 2>>)

\* Report without the test `elif download_speed is not None`: the estimate
\* is made from `download_speed or 0` whenever the upload is not usable.
ReportEstimateAlways ==
    /\ call = "run_full_test" /\ pc = "report"
    /\ IF UploadUsable(upload_speed)
       THEN /\ report' = [kind |-> "measured", value |-> upload_speed]
            /\ UNCHANGED <<est_in, est_out, est_calls>>
       ELSE LET d == IF download_speed # None THEN download_speed ELSE <<0, 1>>
            IN  /\ est_in' = d
                /\ est_out' = <<estimate_upload_from_download(d)>>
                /\ est_calls' = est_calls + 1
                /\ report' = [kind |-> "estimated",
                              value |-> estimate_upload_from_download(d).estimated_upload]
    /\ pc' = "done"
    /\ UNCHANGED <<call, sockVars, readVars, anaVars, in_flight, pingVars, parVars, dlVars, ulVars>>

\* Lines 357-365: the upload line of the results section.
Report ==
    /\ call = "run_full_test" /\ pc = "report"
    /\ IF UploadUsable(upload_speed)
       THEN /\ report' = [kind |-> "measured", value |-> upload_speed]
            /\ UNCHANGED <<est_in, est_out, est_calls>>
       ELSE IF download_speed # None
       THEN /\ est_in' = download_speed
            /\ est_out' = <<estimate_upload_from_download(download_speed)>>
            /\ est_calls' = est_calls + 1
            /\ report' = [kind |-> "estimated",
                          value |-> estimate_upload_from_download(download_speed).estimated_upload]
       ELSE /\ report' = [kind |-> "unable", value |-> None]
            /\ UNCHANGED <<est_in, est_out, est_calls>>
    /\ pc' = "done"
    /\ UNCHANGED <<call, sockVars, readVars, anaVars, in_flight, pingVars, parVars, dlVars, ulVars>>

(***************************************************************************)
(* Specifications                                                          *)
(***************************************************************************)
\* The freshly constructed object, about to run method c from position p.
Fresh(c, p) ==
    /\ call = c /\ pc = p /\ in_flight = {}
    /\ mp_i = 0 /\ ping_times = <<>> /\ mp_log = <<>> /\ mp_ret = None
    /\ wstate = [h \in Hosts |-> "queued"]
    /\ wresult = [h \in Hosts |-> Pending]
    /\ collected = {} /\ ping_results = <<>> /\ avg_ping = None
    /\ dl_i = 0 /\ download_results = <<>> /\ successful_tests = 0
    /\ get_log = <<>> /\ dl_hist = <<>> /\ download_speed = None
    /\ ul_n = 1 /\ ust_s = 1 /\ ust_u = 1 /\ best_result = None
    /\ post_log = <<>> /\ ul_accepted = <<>> /\ ul_last = None
    /\ ul_fast_seen = FALSE
    /\ upload_speed = None
    /\ est_out = None /\ est_calls = 0
    /\ report = [kind |-> "none", value |-> None]
    /\ open_socks = {} /\ sock_ref = 0
    /\ total_data = 0 /\ last_read_at = 0 /\ dst_time = 0 /\ dst_ret = None
    /\ analysis = <<>>

InitPing == Fresh("measure_ping", "ping_loop") /\ est_in = None
    /\ ana_ping = None /\ ana_down = None /\ ana_up = None
NextPing == PingAttempt \/ PingReturn
SpecPing == InitPing /\ [][NextPing]_vars

InitPar == Fresh("run_parallel_ping_tests", "ping_collect") /\ est_in = None
    /\ ana_ping = None /\ ana_down = None /\ ana_up = None
NextPar ==
    \/ \E h \in Hosts : WorkerStart(h)
    \/ \E h \in Hosts : WorkerFinish(h)
    \/ \E h \in Hosts : CollectFuture(h)
    \/ ParReturn
SpecPar == InitPar /\ [][NextPar]_vars

InitDown == Fresh("run_download_tests", "download") /\ est_in = None
    /\ ana_ping = None /\ ana_down = None /\ ana_up = None
NextDown == DlRequestStart \/ DlRequestEnd \/ DlReturn
SpecDown == InitDown /\ [][NextDown]_vars

InitRead == Fresh("download_speed_test", "read") /\ est_in = None
    /\ ana_ping = None /\ ana_down = None /\ ana_up = None
NextRead == ReadChunk \/ ReadRaises \/ ReadMeasure
SpecRead == InitRead /\ [][NextRead]_vars

InitUp == Fresh("run_upload_test", "upload") /\ est_in = None
    /\ ana_ping = None /\ ana_down = None /\ ana_up = None
NextUp == UlPostStart \/ UlPostEnd
SpecUp == InitUp /\ [][NextUp]_vars

InitEst ==
    /\ Fresh("estimate_upload_from_download", "est_call")
    /\ est_in \in EstInputs
    /\ ana_ping = None /\ ana_down = None /\ ana_up = None
SpecEst == InitEst /\ [][EstCall]_vars

InitAna ==
    /\ Fresh("analyze_connection_quality", "ana_call") /\ est_in = None
    /\ ana_ping \in AnaPings /\ ana_down \in AnaDowns /\ ana_up \in AnaUps
SpecAna == InitAna /\ [][AnaCall]_vars

Init == Fresh("run_full_test", "ping_collect") /\ est_in = None
    /\ ana_ping = None /\ ana_down = None /\ ana_up = None
Next ==
    \/ \E h \in Hosts : WorkerStart(h)
    \/ \E h \in Hosts : WorkerFinish(h)
    \/ \E h \in Hosts : CollectFuture(h)
    \/ ParReturn
    \/ DlRequestStart \/ DlRequestEnd \/ DlReturn
    \/ UlPostStart \/ UlPostEnd
    \/ Report
Spec == Init /\ [][Next]_vars

(***************************************************************************)
(* Properties                                                              *)
(***************************************************************************)
RECURSIVE SumOver(_, _)
SumOver(S, f) ==
    IF S = {} THEN 0
    ELSE LET x == CHOOSE y \in S : TRUE
         IN  f[x] + SumOver(S \ {x}, f)

\* ---- C5 ----------------------------------------------------------------
ConnectedAttempts == {k \in DOMAIN mp_log : mp_log[k].kind = "connected"}
AttemptMs == [k \in DOMAIN mp_log |-> mp_log[k].ms]

\* C5: measure_ping never makes more than 3 connect attempts and returns
\* only after exactly 3, whatever their outcomes; it returns None if and
\* only if none of the 3 connected, and otherwise the arithmetic mean of the
\* times of exactly the attempts that connected.
C5_PingThreeAttemptsMean ==
    /\ Len(mp_log) <= 3
    /\ pc = "done" =>
          /\ Len(mp_log) = 3
          /\ (mp_ret = None) <=> (ConnectedAttempts = {})
          /\ ConnectedAttempts # {} =>
                /\ mp_ret # None
                /\ mp_ret[1] * Cardinality(ConnectedAttempts)
                      = SumOver(ConnectedAttempts, AttemptMs) * mp_ret[2]

\* A call whose first attempt raised, whose second was refused and whose
\* third connected has returned the third attempt's time.
C5_Witness ==
    /\ pc = "done"
    /\ mp_log[1].kind = "error"
    /\ mp_log[2].kind = "refused"
    /\ mp_log[3].kind = "connected"
    /\ mp_ret = <<mp_log[3].ms, 1>>

\* ---- C6 ----------------------------------------------------------------
HostsWithReading == {h \in Hosts : ~wresult[h].exc /\ wresult[h].val # None
                                      /\ wresult[h] # Pending}
Occurrences(s, x) == Cardinality({k \in DOMAIN s : s[k] = x})
ReadingNum ==
    [h \in HostsWithReading |-> wresult[h].val[1] * (60 \div wresult[h].val[2])]

\* C6: whatever hosts fail (no reading, or an exception) and in whatever
\* order the futures complete and are collected, ping_results holds the
\* reading of every collected host that produced one, once each, and nothing
\* else; the figure returned is None if and only if no host produced a
\* reading, and otherwise the arithmetic mean of those hosts' readings.
C6_ParallelMeanIsolated ==
    /\ Len(ping_results) = Cardinality(collected \cap HostsWithReading)
    /\ \A h \in collected \cap HostsWithReading :
          Occurrences(ping_results, wresult[h].val) = 1
    /\ pc = "done" =>
          /\ collected = Hosts
          /\ (avg_ping = None) <=> (HostsWithReading = {})
          /\ HostsWithReading # {} =>
                /\ avg_ping # None
                /\ avg_ping[1] * Cardinality(HostsWithReading) * 60
                      = SumOver(HostsWithReading, ReadingNum) * avg_ping[2]

\* Host 1 returned no reading, host 2 raised, hosts 3, 4, 5 were collected
\* in the order 5, 3, 4 and the figure is the mean of their three readings.
C6_Witness ==
    /\ pc = "done"
    /\ wresult[1] = Returned(None)
    /\ wresult[2] = Raised
    /\ ping_results = << <<50, 1>>, <<30, 1>>, <<40, 1>> >>
    /\ avg_ping = <<40, 1>>

\* ---- C1 ----------------------------------------------------------------
\* C1: the download sampler never holds more than 3 samples, and every GET
\* it issues is issued while fewer than 3 samples are held: once the third
\* valid sample is collected no further endpoint is requested.
C1_StopsAfterThreeSamples ==
    /\ Len(download_results) <= 3
    /\ \A k \in DOMAIN get_log : get_log[k].samples < 3
    /\ Len(download_results) = 3 => in_flight = {}

\* The first three endpoints each gave a valid sample and the sampler has
\* returned with the fourth endpoint untried.
C1_Witness ==
    /\ call = "run_download_tests" /\ pc = "done"
    /\ Len(download_results) = 3
    /\ Len(get_log) = 3
    /\ Len(get_log) < MaxTests

\* ---- C8 ----------------------------------------------------------------
ValidAsSpecified(o) == o.kind = "ok" /\ o.bytes >= 1024 /\ o.ms >= 100

\* C8: a transfer that completed without error is stored as a sample if and
\* only if it moved at least 1024 bytes and took at least 0.1 s, boundaries
\* of 1024 bytes and of 0.1 s included; so the samples held are as many as
\* the completed transfers meeting both thresholds.
C8_StoredIffAtLeastThresholds ==
    Len(download_results)
        = Cardinality({k \in DOMAIN dl_hist : ValidAsSpecified(dl_hist[k])})

\* ---- C9 ----------------------------------------------------------------
NotAbove(x) == {k \in DOMAIN download_results : RatLe(download_results[k], x)}
NotBelow(x) == {k \in DOMAIN download_results : RatLe(x, download_results[k])}

\* C9: when run_download_tests has returned with at least one sample held,
\* the figure returned is the median of the samples: the sample itself for
\* one sample, half the sum of the two for two samples, and for three the
\* sample with two samples not above it and two samples not below it.
C9_ReturnsMedian ==
    (pc = "done" /\ download_results # <<>>) =>
        /\ download_speed # None
        /\ Len(download_results) = 1 => download_speed = download_results[1]
        /\ Len(download_results) = 2 =>
              RatAdd(download_speed, download_speed)
                  = RatAdd(download_results[1], download_results[2])
        /\ Len(download_results) = 3 =>
              /\ \E k \in 1..3 : download_speed = download_results[k]
              /\ Cardinality(NotAbove(download_speed)) >= 2
              /\ Cardinality(NotBelow(download_speed)) >= 2

\* Samples of 100, 5 and 10 Mbps were collected, in that order, and 10 Mbps
\* was returned (their mean is 38.3, their peak 100).
C9_Witness ==
    /\ pc = "done"
    /\ download_results = << <<100, 1>>, <<5, 1>>, <<10, 1>> >>
    /\ download_speed = <<10, 1>>

\* ---- C2 ----------------------------------------------------------------
Fast(speed) == RatGt(speed, <<1, 1>>)

\* C2 (as amended): the upload sampler stops at the first attempt that meets
\* the minimum duration (more than 0.1 s) and whose speed exceeds 1.0 Mbps:
\* such an attempt is the last POST issued, the sampler has returned, and
\* what it returned is that attempt's speed.
C2_StopsAtFirstAcceptedFast ==
    \A k \in DOMAIN ul_accepted :
        Fast(ul_accepted[k].speed_mbps) =>
            /\ k = Len(ul_accepted)
            /\ ul_accepted[k].at = Len(post_log)
            /\ in_flight = {}
            /\ pc = "done"
            /\ upload_speed = ul_accepted[k].speed_mbps

\* After four POSTs that did not count, the fifth took 0.15 s at more than
\* 1.0 Mbps and the sampler returned its speed without a sixth POST.
C2_Witness ==
    /\ pc = "done"
    /\ Len(post_log) = 5
    /\ Len(ul_accepted) = 1
    /\ ul_last # None /\ ul_last[1].ms = <<150, 1>>
    /\ Fast(upload_speed)

\* C2 (as stated): the upload sampler stops at the first attempt whose speed
\* exceeds 1.0 Mbps, whatever its duration: once a POST has completed at
\* more than 1.0 Mbps the sampler has returned that attempt's speed.
C2_StopsAtFirstFast ==
    (ul_last # None /\ ul_last[1].kind = "ok"
        /\ Fast(UploadMbps(ul_last[1].bytes, ul_last[1].ms))) =>
            /\ pc = "done"
            /\ upload_speed = UploadMbps(ul_last[1].bytes, ul_last[1].ms)

\* ---- C3 ----------------------------------------------------------------
\* The POSTs of one upload_speed_test(n) that accepts nothing.
Combos(n) ==
    << <<n, 1>>, <<n, 2>>, <<n, 3>>,
       <<n \div 2, 1>>, <<n \div 2, 2>>, <<n \div 2, 3>>,
       <<n * 2, 1>>, <<n * 2, 2>>, <<n * 2, 3>> >>
Nominal == <<50, 100, 200>>
AcceptedAt == {ul_accepted[k].at : k \in DOMAIN ul_accepted}

\* post_log from entry k on is what the calls from call c, at its j-th
\* POST, issue: a call ends at an accepted POST or after its ninth.
RECURSIVE Follows(_, _, _)
Follows(k, c, j) ==
    IF k > Len(post_log) THEN TRUE
    ELSE /\ c <= 3
         /\ post_log[k] = Combos(Nominal[c])[j]
         /\ IF k \in AcceptedAt \/ j = 9
            THEN Follows(k + 1, c + 1, 1)
            ELSE Follows(k + 1, c, j + 1)

\* C3 (as amended): run_upload_test calls upload_speed_test with the nominal
\* sizes 50, 100, 200 KB in that order; each call POSTs the sizes nominal,
\* nominal // 2, nominal * 2 in that order, each to every endpoint in
\* configured order, and ends at its first attempt that meets the minimum
\* duration, whatever its speed.  So a run in which no attempt meets the
\* minimum duration issues 27 POSTs (9 per nominal size, the call for
\* nominal size 100 issuing sizes 100, 50, 200), some (size, endpoint)
\* combinations more than once.
C3_PostOrder ==
    /\ Follows(1, 1, 1)
    /\ (pc = "done" /\ ul_accepted = <<>>) =>
          post_log = Combos(50) \o Combos(100) \o Combos(200)

\* The sampler has returned after 27 POSTs none of which was accepted.
C3_Witness ==
    /\ pc = "done"
    /\ ul_accepted = <<>>
    /\ Len(post_log) = 27
    /\ post_log[10] = <<100, 1>> /\ post_log[13] = <<50, 1>>
    /\ post_log[16] = <<200, 1>>

\* C3 (as stated): when the sampler has returned and no attempt yielded more
\* than 1.0 Mbps, it issued exactly the 9 POSTs of nominal size 100: sizes
\* 100, 50, 200 in that order, each to endpoints 1, 2, 3, none repeated.
C3_NinePosts ==
    (pc = "done" /\ ~ul_fast_seen) => post_log = Combos(100)

\* ---- C4 ----------------------------------------------------------------
NoneFast == \A k \in DOMAIN ul_accepted : ~Fast(ul_accepted[k].speed_mbps)
Counted == {k \in DOMAIN ul_accepted :
               RatGt(ul_accepted[k].speed_mbps, <<1, 10>>)}

\* C4 (as amended): when no upload attempt exceeds 1.0 Mbps, the sampler
\* returns the highest speed among the attempts that met the minimum
\* duration and whose speed exceeds 0.1 Mbps, and returns None if and only
\* if there is no such attempt; an accepted attempt at 0.1 Mbps or less is
\* dropped.
C4_ReturnsBestAboveMinimum ==
    (pc = "done" /\ NoneFast) =>
        /\ (upload_speed = None) <=> (Counted = {})
        /\ Counted # {} =>
              /\ \E k \in Counted : upload_speed = ul_accepted[k].speed_mbps
              /\ \A k \in Counted : RatLe(ul_accepted[k].speed_mbps, upload_speed)

\* Three attempts were accepted, none above 1.0 Mbps: the first is the
\* fastest, the second is at 0.1 Mbps or less, the third is slower than the
\* first; the first one's speed was returned.
C4_Witness ==
    /\ pc = "done" /\ NoneFast
    /\ Len(ul_accepted) = 3
    /\ 2 \notin Counted
    /\ 3 \in Counted
    /\ RatLt(ul_accepted[3].speed_mbps, ul_accepted[1].speed_mbps)
    /\ upload_speed = ul_accepted[1].speed_mbps

\* C4 (as stated): when no upload attempt exceeds 1.0 Mbps, the sampler
\* returns the highest speed among all attempts that met the minimum
\* duration, and None only if no attempt met it.
C4_ReturnsBestAccepted ==
    (pc = "done" /\ ~ul_fast_seen) =>
        /\ (upload_speed = None) <=> (ul_accepted = <<>>)
        /\ ul_accepted # <<>> =>
              /\ \E k \in DOMAIN ul_accepted :
                    upload_speed = ul_accepted[k].speed_mbps
              /\ \A k \in DOMAIN ul_accepted :
                    RatLe(ul_accepted[k].speed_mbps, upload_speed)

\* ---- C7 ----------------------------------------------------------------
Open(kind) == {t \in in_flight : t[1] = kind}

\* C7: in a full run at most one throughput transfer is open at any moment;
\* a GET is open, or any later position is reached, only with every latency
\* worker finished; a POST is issued only in the upload phase, with no GET
\* open, and no GET is issued once a POST has been.
C7_PhasesNeverOverlap ==
    /\ Cardinality(in_flight) <= 1
    /\ (in_flight # {} \/ pc # "ping_collect") =>
          \A h \in Hosts : wstate[h] = "done"
    /\ Open("GET") # {} => (pc = "download_wait" /\ post_log = <<>>)
    /\ Open("POST") # {} => pc = "upload_wait"
    /\ post_log # <<>> => (pc \in {"upload", "upload_wait"} /\ Open("GET") = {})
    /\ get_log # <<>> => pc \in {"download", "download_wait"}

\* The first POST of a full run is open: the ping phase and the download
\* phase have both returned a figure.
C7_Witness ==
    /\ call = "run_full_test"
    /\ in_flight = {<<"POST", 1>>}
    /\ avg_ping # None
    /\ download_speed # None

\* ---- C10 ---------------------------------------------------------------
\* The brackets as the claim lists them: label, ceiling (0 with unbounded
\* TRUE for the last), ratio.
DeclaredOrder == <<
    [label |-> "Satellite", ceiling |-> 25, unbounded |-> FALSE, ratio |-> <<1, 20>>],
    [label |-> "DSL", ceiling |-> 15, unbounded |-> FALSE, ratio |-> <<1, 10>>],
    [label |-> "Cable Basic", ceiling |-> 50, unbounded |-> FALSE, ratio |-> <<1, 5>>],
    [label |-> "Cable Premium", ceiling |-> 200, unbounded |-> FALSE, ratio |-> <<3, 10>>],
    [label |-> "Fiber Asymmetric", ceiling |-> 500, unbounded |-> FALSE, ratio |-> <<2, 5>>],
    [label |-> "Fiber Symmetric", ceiling |-> 0, unbounded |-> TRUE, ratio |-> <<9, 10>>] >>

\* est_in = num / den is at most the k-th ceiling
AtMostCeiling(k) ==
    DeclaredOrder[k].unbounded \/ est_in[1] <= DeclaredOrder[k].ceiling * est_in[2]
Eligible == {k \in DOMAIN DeclaredOrder : AtMostCeiling(k)}
FirstEligible == CHOOSE k \in Eligible : \A j \in Eligible : k <= j

\* C10: estimate_upload_from_download returns the download speed times the
\* ratio, and the label, of the first bracket in declared order (Satellite
\* 25, DSL 15, Cable Basic 50, Cable Premium 200, Fiber Asymmetric 500,
\* Fiber Symmetric unbounded) whose ceiling is at least the download speed;
\* so 20 Mbps gives Satellite and 1.0 Mbps, and 25 Mbps gives Satellite.
C10_FirstBracketInDeclaredOrder ==
    pc = "done" =>
        /\ Eligible # {}
        /\ est_out[1].conn_type = DeclaredOrder[FirstEligible].label
        /\ est_out[1].estimated_upload[1]
              * (est_in[2] * DeclaredOrder[FirstEligible].ratio[2])
              = est_in[1] * DeclaredOrder[FirstEligible].ratio[1]
                  * est_out[1].estimated_upload[2]
        /\ est_in = <<20, 1>> =>
              est_out[1] = [estimated_upload |-> <<1, 1>>, conn_type |-> "Satellite"]
        /\ est_in = <<25, 1>> =>
              est_out[1] = [estimated_upload |-> <<5, 4>>, conn_type |-> "Satellite"]

\* The function was applied to 10 Mbps, which is within the DSL ceiling of
\* 15 as well as the Satellite ceiling of 25, and answered Satellite, the
\* bracket declared first, with 0.5 Mbps.
C10_Witness ==
    /\ pc = "done"
    /\ est_in = <<10, 1>>
    /\ est_out[1] = [estimated_upload |-> <<1, 2>>, conn_type |-> "Satellite"]

\* ---- C11 ---------------------------------------------------------------
\* A GET that gave no sample on any reading of the thresholds: an error, or
\* fewer than 1024 bytes, or less than 0.1 s.
AttemptFailed(o) == o.kind # "ok" \/ o.bytes < 1024 \/ o.ms < 100
DownloadsOver == call = "run_full_test" /\ pc \in {"upload", "upload_wait", "report", "done"}
EveryDownloadFailed ==
    DownloadsOver /\ \A k \in DOMAIN dl_hist : AttemptFailed(dl_hist[k])

\* C11: in a full run in which every download attempt failed, the download
\* figure is None and estimate_upload_from_download is never called,
\* whatever the upload sampler returned: the upload line is either the
\* measured value (upload above 0.5) or "unable to measure".
C11_NoEstimateWithoutDownload ==
    EveryDownloadFailed =>
        /\ download_speed = None
        /\ est_calls = 0 /\ est_out = None
        /\ report.kind # "estimated"
        /\ pc = "done" =>
              report.kind = (IF UploadUsable(upload_speed) THEN "measured" ELSE "unable")

\* A full run ended after four failed GETs and no upload result: nothing was
\* estimated and the report says "unable".
C11_Witness ==
    /\ EveryDownloadFailed /\ pc = "done"
    /\ Len(dl_hist) = 4
    /\ upload_speed = None
    /\ report.kind = "unable" /\ est_calls = 0

\* ---- C12 ---------------------------------------------------------------
ReportDone == call = "run_full_test" /\ pc = "done"
MeasuredReported ==
    /\ report = [kind |-> "measured", value |-> upload_speed]
    /\ est_calls = 0 /\ est_out = None

\* C12 as amended: in a full run the estimate is used only when the upload
\* sampler returned None or a speed of at most 0.5 Mbps. Whenever it
\* returned a speed above 0.5, the measured value is reported and
\* estimate_upload_from_download is not called; at exactly 0.5, as below it,
\* the measured value is not reported: the estimate is, if there is a
\* download figure, and "unable" otherwise.
C12_MeasuredAboveHalf ==
    ReportDone =>
        /\ (upload_speed # None /\ RatGt(upload_speed, <<1, 2>>)) => MeasuredReported
        /\ est_calls > 0 => (upload_speed = None \/ RatLe(upload_speed, <<1, 2>>))
        /\ upload_speed = <<1, 2>> =>
              /\ report.kind = (IF download_speed # None THEN "estimated" ELSE "unable")
              /\ est_calls = (IF download_speed # None THEN 1 ELSE 0)

\* A full run whose upload sampler returned 25/32 Mbps (a 200 KB payload in
\* 2 s), with a download figure at hand: the measured value was reported.
C12_Witness ==
    /\ ReportDone
    /\ upload_speed # None /\ RatGt(upload_speed, <<1, 2>>) /\ RatLt(upload_speed, <<1, 1>>)
    /\ download_speed # None
    /\ MeasuredReported

\* C12 as stated: whenever the upload sampler returned a speed of at least
\* 0.5 Mbps, exactly 0.5 included, the measured value is reported and the
\* estimate is not made.
C12_MeasuredAtLeastHalf ==
    (ReportDone /\ upload_speed # None /\ RatLe(<<1, 2>>, upload_speed)) =>
        MeasuredReported

\* ---- C13 ---------------------------------------------------------------
\* C13: run_download_tests requests only the first 4 configured urls, in
\* configured order and each at most once (the k-th GET goes to the k-th
\* url), so at most 4 GETs; it stops at whichever comes first of 3 samples
\* collected and 4 urls tried, and not before.
C13_FirstFourInOrder ==
    /\ Len(get_log) <= 4
    /\ \A k \in DOMAIN get_log :
          /\ get_log[k].url = k
          /\ get_log[k].samples < 3
    /\ (call = "run_download_tests" /\ pc = "done") =>
          /\ Len(download_results) = 3 \/ Len(get_log) = 4
          /\ Len(download_results) <= 3

\* The sampler returned after the fourth url with two samples only.
C13_Witness ==
    /\ call = "run_download_tests" /\ pc = "done"
    /\ Len(get_log) = 4 /\ get_log[4].url = 4
    /\ Len(download_results) = 2

\* ---- C14 ---------------------------------------------------------------
\* The number of samples held once the k-th GET was dealt with.
SamplesAfter(k) ==
    IF k < Len(get_log) THEN get_log[k + 1].samples ELSE Len(download_results)

\* C14: a GET that ends in an HTTP error, a timeout, a transport error, any
\* other exception or too little data is a soft skip. The samples collected
\* so far are left as they were, the sampler goes on to the next url (it
\* returns only after the fourth url or with 3 samples), and it returns
\* normally: None if no GET gave a sample, a number otherwise.
C14_FailureIsSoftSkip ==
    call = "run_download_tests" =>
        /\ \A k \in DOMAIN dl_hist :
              AttemptFailed(dl_hist[k]) =>
                  /\ SamplesAfter(k) = get_log[k].samples
                  /\ (pc = "done" /\ k < 4) => Len(get_log) > k
        /\ pc = "done" =>
              /\ Len(dl_hist) = Len(get_log)
              /\ (download_speed = None) <=> (download_results = <<>>)
              /\ (\A k \in DOMAIN dl_hist : AttemptFailed(dl_hist[k])) =>
                    (Len(dl_hist) = 4 /\ download_speed = None)

\* The first url gave a sample, the second timed out, and the third was
\* requested with that one sample still held.
C14_Witness ==
    /\ call = "run_download_tests"
    /\ Len(dl_hist) >= 2 /\ Len(get_log) >= 3
    /\ ~AttemptFailed(dl_hist[1]) /\ get_log[2].samples = 1
    /\ dl_hist[2].kind = "timeout"
    /\ get_log[3].url = 3 /\ get_log[3].samples = 1

\* ---- C15 ---------------------------------------------------------------
\* C15: download_speed_test reads in chunks of at most 8192 bytes and calls
\* response.read no more once total_data exceeds 50 MiB (52428800), so
\* total_data never exceeds 52428800 + 8192; a transfer ended by the cap is
\* measured like any other: if it took more than 0.1 s, the result is the
\* sample made of the bytes read, bytes * 8 / (1048576 * seconds) Mbps.
C15_ReadCapped ==
    call = "download_speed_test" =>
        /\ last_read_at <= 52428800
        /\ total_data <= 52428800 + 8192
        /\ total_data - last_read_at <= 8192
        /\ (pc = "read" /\ total_data > 0) => total_data <= 52428800
        /\ (pc = "done" /\ total_data > 52428800 /\ dst_time > 100) =>
              /\ dst_ret # None
              /\ dst_ret[1].total_data = total_data
              /\ dst_ret[1].speed_mbps =
                    RatMul(Norm(<<total_data, 131072>>), <<1000, dst_time>>)

\* A body of more than 50 MiB was cut off after 52428800 + 4096 bytes and,
\* having taken 1 s, gave a sample of those bytes.
C15_Witness ==
    /\ call = "download_speed_test" /\ pc = "done"
    /\ total_data = 52428800 + 4096
    /\ dst_time = 1000
    /\ dst_ret # None /\ dst_ret[1].total_data = total_data

\* ---- C16 ---------------------------------------------------------------
\* bytes * 8 / (1024 * 1024 * duration), the duration being ms / 1000 s.
SpeedAsSpecified(bytes, ms) == RatMul(Norm(<<bytes * 8, 1048576>>), <<1000, ms>>)

\* C16: every completed transfer of at least 1024 bytes in at least 0.1 s is
\* a sample whose recorded speed is bytes * 8 / (1024 * 1024 * duration)
\* Mbps, computed from that transfer's own bytes and duration; 1048576 bytes
\* in 1.0 s are recorded as exactly 8 Mbps.
C16_SpeedOfValidTransfer ==
    call = "run_download_tests" =>
        \A k \in DOMAIN dl_hist :
            ValidAsSpecified(dl_hist[k]) =>
                /\ SamplesAfter(k) = get_log[k].samples + 1
                /\ Len(download_results) > get_log[k].samples
                /\ download_results[get_log[k].samples + 1]
                      = SpeedAsSpecified(dl_hist[k].bytes, dl_hist[k].ms)
                /\ (dl_hist[k].bytes = 1048576 /\ dl_hist[k].ms = 1000) =>
                      download_results[get_log[k].samples + 1] = <<8, 1>>

\* ---- C17 ---------------------------------------------------------------
LatencyLabels == {"Excellent latency", "Good latency", "Fair latency", "High latency"}
DownloadLabels == {"Ultra-fast download", "Fast download", "Good download",
                   "Adequate download", "Slow download"}
UploadLabels == {"Fast upload", "Good upload", "Basic upload", "Limited upload"}

\* The labels of the set L in the list a, in their order.
LabelsIn(L, a) == SelectSeq(a, LAMBDA x : x \in L)

\* C17: in the list analyze_connection_quality returns, the label of each
\* metric, and whether there is one, depends on that metric's value alone:
\* the same call with any other values of the other two metrics gives the
\* same label for it. Every entry is a label of one of the three metrics and
\* no metric has more than one.
C17_MetricsIndependent ==
    (call = "analyze_connection_quality" /\ pc = "done") =>
        /\ \A p \in AnaPings, d \in AnaDowns, u \in AnaUps :
              /\ LabelsIn(LatencyLabels, analyze_connection_quality(ana_ping, d, u))
                    = LabelsIn(LatencyLabels, analysis)
              /\ LabelsIn(DownloadLabels, analyze_connection_quality(p, ana_down, u))
                    = LabelsIn(DownloadLabels, analysis)
              /\ LabelsIn(UploadLabels, analyze_connection_quality(p, d, ana_up))
                    = LabelsIn(UploadLabels, analysis)
        /\ Len(LabelsIn(LatencyLabels, analysis)) <= 1
        /\ Len(LabelsIn(DownloadLabels, analysis)) <= 1
        /\ Len(LabelsIn(UploadLabels, analysis)) <= 1
        /\ Len(analysis) = Len(LabelsIn(LatencyLabels, analysis))
                             + Len(LabelsIn(DownloadLabels, analysis))
                             + Len(LabelsIn(UploadLabels, analysis))
        /\ (LabelsIn(LatencyLabels, analysis) = <<>>) <=> (ana_ping = None)
        /\ (LabelsIn(DownloadLabels, analysis) = <<>>) <=> (ana_down = None)

\* Called with a ping of 5 ms, no download figure and an upload of 20 Mbps,
\* the function gave the latency label and the upload label.
C17_Witness ==
    /\ call = "analyze_connection_quality" /\ pc = "done"
    /\ ana_ping = <<5, 1>> /\ ana_down = None /\ ana_up = <<20, 1>>
    /\ analysis = <<"Excellent latency", "Fast upload">>

\* ---- C18 ---------------------------------------------------------------
EstDone == call = "estimate_upload_from_download" /\ pc = "done"

\* C18: estimate_upload_from_download never answers with the DSL bracket
\* (label 'DSL', ratio 0.1): every download speed of at most 15 Mbps, being
\* at most 25 as well, is answered with the Satellite bracket, 0.05 times
\* the speed.
C18_DslNeverReturned ==
    EstDone =>
        /\ est_out[1].conn_type # "DSL"
        /\ RatLe(est_in, <<15, 1>>) =>
              /\ est_out[1].conn_type = "Satellite"
              /\ est_out[1].estimated_upload = RatMul(est_in, <<1, 20>>)
              /\ est_in[1] > 0 =>
                    est_out[1].estimated_upload # RatMul(est_in, <<1, 10>>)

\* The function was applied to 15 Mbps, the DSL ceiling itself, and answered
\* Satellite with 0.75 Mbps.
C18_Witness ==
    /\ EstDone
    /\ est_in = <<15, 1>>
    /\ est_out[1] = [estimated_upload |-> <<3, 4>>, conn_type |-> "Satellite"]

\* ---- C20 ---------------------------------------------------------------
\* C20: the default after the loop (ratio 0.9, 'High-Speed Fiber') is never
\* what estimate_upload_from_download returns, for any download speed: the
\* last bracket has no ceiling, and every speed above 500 Mbps is answered
\* 'Fiber Symmetric' with 0.9 times the speed.
C20_FallbackNeverReturned ==
    EstDone =>
        /\ est_out[1].conn_type # "High-Speed Fiber"
        /\ est_out[1].conn_type \in {"Satellite", "Cable Basic", "Cable Premium",
                                     "Fiber Asymmetric", "Fiber Symmetric"}
        /\ RatGt(est_in, <<500, 1>>) =>
              /\ est_out[1].conn_type = "Fiber Symmetric"
              /\ est_out[1].estimated_upload = RatMul(est_in, <<9, 10>>)

\* The function was applied to 550 Mbps and answered Fiber Symmetric with
\* 495 Mbps.
C20_Witness ==
    /\ EstDone
    /\ est_in = <<550, 1>>
    /\ est_out[1] = [estimated_upload |-> <<495, 1>>, conn_type |-> "Fiber Symmetric"]

\* ---- C19 ---------------------------------------------------------------
\* C19: between the attempts of measure_ping and after it has returned, no
\* socket opened by an attempt is still open, whatever the attempts came to:
\* a connect, a non-zero connect result, or an exception of the connect call.
C19_SocketsClosed ==
    call = "measure_ping" => open_socks = {}

=============================================================================
